---- MODULE Spec2Model ----
(***************************************************************************)
(* The two-input multi-list screen model of tui-do                         *)
(* (src/unnamed/part_001, lines 67-543): the model struct, initialModel,   *)
(* the key handler Update, the row projection screenItems and SaveItems.   *)
(*                                                                         *)
(* Four earlier programs of the repository follow it, each with a          *)
(* specification of its own in which the other programs do not run: the    *)
(* single-list program (src/main.go), the multi-list program without key   *)
(* rows (src/unnamed/part_002, lines 1-300) and the one-input multi-list   *)
(* program (src/unnamed/part_002, lines 302-648).                          *)
(* The earliest program, a single list without an input field              *)
(* (src/unnamed/part_001, lines 545-732), comes last.                      *)
(*                                                                         *)
(* Strings are sequences of one-character strings.  Indices are 0-based as *)
(* in the Go source; a Go slice s is a TLA+ sequence and s[i] is written   *)
(* s[i + 1].                                                               *)
(***************************************************************************)
EXTENDS Integers, Sequences, FiniteSets, TLC

\* Bounds of the model.
MaxKeys == 2       \* lists that can exist at once
MaxItems == 2      \* items all lists together can hold
MaxLen == 1        \* characters an input field can hold (CharLimit in the code)

VARIABLES
    keys,               \* model.keys: ordered list names
    lists,              \* model.lists: name -> sequence of listItem
    nilLists,           \* model.lists is the nil map (no mapping exists)
    selectedList,       \* model.selectedList
    cursor,             \* model.cursor
    listStartOffset,    \* model.listStartOffset
    textInput,          \* model.textInput: the add-item field
    newListTextInput,   \* model.newListTextInput: the add-list field
    status,             \* "running" until tea.Quit is returned
    saved,              \* what SaveItems has written to ~/.tui-do/.tui-do.json
    msg,                \* the key event handled last ("" before the first)
    pre,                \* the model as that event found it
    single,             \* the program of src/main.go: its model struct with
                        \* status, saved, msg and pre as above
    tabbed,             \* the program of part_002 lines 1-300, likewise
    oneInput,           \* the program of part_002 lines 302-648, likewise
    earliest            \* the program of part_001 lines 545-732, likewise,
                        \* with the file it found at start

\* the fields of the model struct, as one value
model == [keys |-> keys, lists |-> lists, selectedList |-> selectedList,
          cursor |-> cursor, listStartOffset |-> listStartOffset,
          textInput |-> textInput, newListTextInput |-> newListTextInput]

\* the variables of the two-input program
twoInputVars == <<keys, lists, nilLists, selectedList, cursor, listStartOffset,
                  textInput, newListTextInput, status, saved, msg, pre>>

vars == <<keys, lists, nilLists, selectedList, cursor, listStartOffset,
          textInput, newListTextInput, status, saved, msg, pre,
          single, tabbed, oneInput, earliest>>

----------------------------------------------------------------------------
\* Strings

Space == " "
Runes == {" ", "d", "q"}

RECURSIVE TrimLeft(_)
TrimLeft(s) == IF s # <<>> /\ Head(s) = Space THEN TrimLeft(Tail(s)) ELSE s

RECURSIVE TrimRight(_)
TrimRight(s) ==
    IF s # <<>> /\ s[Len(s)] = Space THEN TrimRight(SubSeq(s, 1, Len(s) - 1)) ELSE s

\* a trim that strips nothing
TrimNothing(s) == s

\* strings.TrimSpace
TrimSpace(s) == TrimRight(TrimLeft(s))

----------------------------------------------------------------------------
\* Data

listItem(text, done) == [Item |-> text, Completed |-> done]

EmptyMap == [n \in {} |-> <<>>]

\* m.lists[name]: a missing entry reads as the nil slice, which has no items
MapGet(m, name) == IF name \in DOMAIN m THEN m[name] ELSE <<>>

\* m.lists[name] = v
MapPut(m, name, v) ==
    [n \in (DOMAIN m) \cup {name} |-> IF n = name THEN v ELSE m[n]]

\* delete that removes nothing
MapDeleteNothing(m, name) == m

\* delete(m.lists, name)
MapDelete(m, name) == [n \in (DOMAIN m) \ {name} |-> m[n]]

\* a removal that drops the last element whatever the index
RemoveLast(s, i) == SubSeq(s, 1, Len(s) - 1)

\* the slice s without index i (the loops of lines 246-251 and 295-300)
RemoveAt(s, i) ==
    [j \in 1..(Len(s) - 1) |-> IF j < i + 1 THEN s[j] ELSE s[j + 1]]

\* textinput.Model: the text and whether the field accepts keystrokes
textinputNew == [value |-> <<>>, focus |-> FALSE]

\* textinput.Model.Focus / Blur / SetValue
Focus(ti) == [ti EXCEPT !.focus = TRUE]
Blur(ti) == [ti EXCEPT !.focus = FALSE]
SetValue(ti, v) == [ti EXCEPT !.value = v]

\* textinput.Model.Update for a key event: a focused field takes a typed
\* character up to its CharLimit; every other key leaves the text alone
textinputUpdate(ti, k) ==
    IF ti.focus /\ k \in Runes /\ Len(ti.value) < MaxLen
    THEN [ti EXCEPT !.value = Append(ti.value, k)]
    ELSE ti

\* a blur of the add-list field that is forgotten
keepListTextInput(ti) == ti

\* a blur of the add-item field that is forgotten
keepTextInput(ti) == ti

\* focusTextInput, blurTextInput, focusListTextInput, blurListTextInput
focusTextInput(ti) == Focus(ti)
blurTextInput(ti) == Blur(ti)
focusListTextInput(ti) == Focus(ti)
blurListTextInput(ti) == Blur(ti)

----------------------------------------------------------------------------
\* Persistence
\*
\* The file is absent, holds zero bytes, or holds one JSON record
\*   {"keys": [...], "lists": {"<name>": [{"item": .., "completed": ..}]}}
\* A JSON array is a sequence and a JSON object a set of <<name, value>>
\* members.  hasLists says whether the record has a "lists" member that is
\* not null; a missing or null "keys" member reads as no keys.

NoFile == [kind |-> "absent", keys |-> <<>>, hasLists |-> FALSE, lists |-> {}]

EmptyFile == [kind |-> "empty", keys |-> <<>>, hasLists |-> FALSE, lists |-> {}]

\* the Go struct jsonData{Keys, Lists}
jsonData(ks, ls) == [Keys |-> ks, Lists |-> ls]

Range(s) == {s[i] : i \in DOMAIN s}

\* a decoder that reads the flag under a tag the encoder never writes
decodeItemNoFlag(o) == listItem(o.item, FALSE)

\* listItem <-> {"item": .., "completed": ..} by the struct tags
encodeItem(it) == [item |-> it.Item, completed |-> it.Completed]
decodeItem(o) == listItem(o.item, o.completed)

encodeItems(its) == [i \in 1..Len(its) |-> encodeItem(its[i])]
decodeItems(arr) == [i \in 1..Len(arr) |-> decodeItem(arr[i])]

\* json.Marshal(data); a nil map is written as null
jsonMarshal(data, isNil) ==
    [kind |-> "record",
     keys |-> data.Keys,
     hasLists |-> ~isNil,
     lists |-> {<<n, encodeItems(data.Lists[n])>> : n \in DOMAIN data.Lists}]

\* json.Unmarshal(contents, &data)
jsonUnmarshal(f) ==
    jsonData(f.keys,
             [n \in {mem[1] : mem \in f.lists} |->
                 decodeItems((CHOOSE mem \in f.lists : mem[1] = n)[2])])

\* loadItems: <<lists, keys>>; an absent or empty file gives no keys and an
\* empty mapping
loadItems(f) ==
    IF f.kind = "record"
    THEN <<jsonUnmarshal(f).Lists, jsonUnmarshal(f).Keys>>
    ELSE <<EmptyMap, <<>>>>

\* whether the mapping loadItems returns is the nil map
loadsNil(f) == f.kind = "record" /\ ~f.hasLists

\* SaveItems: the bytes written at quit
SaveItems == jsonMarshal(jsonData(keys, lists), nilLists)

\* The files a first start can find: none, or a record this program wrote
\* for keys and a mapping that agree.
InitialFiles ==
    {NoFile} \cup
    UNION {{jsonMarshal(jsonData(ks, ls), FALSE) :
                ls \in [Range(ks) -> {<<>>, <<listItem(<<"d">>, FALSE)>>}]} :
           ks \in {<<>>, << <<"d">> >>, << <<"d">>, <<"d", "d">> >>}}

----------------------------------------------------------------------------
\* The values Update computes on entry (lines 206-226)

numKeys == Len(keys)
items == IF numKeys > 0 THEN MapGet(lists, keys[selectedList + 1]) ELSE <<>>
numItems == Len(items)
inputsCount == IF numKeys > 0 THEN 2 ELSE 1
total == numKeys + numItems + inputsCount
newListIdx == total - 1
newItemIdx == IF inputsCount = 2 THEN total - 2 ELSE -1

\* an item cursor that forgets the key rows above the items
getItemCursorNoOffset == cursor

getItemCursor == cursor - listStartOffset
itemCursor == getItemCursor

setCursor(new) == new + listStartOffset

\* the number of items in the whole mapping
RECURSIVE SumLen(_, _)
SumLen(m, D) ==
    IF D = {} THEN 0
    ELSE LET n == CHOOSE x \in D : TRUE IN Len(m[n]) + SumLen(m, D \ {n})
totalItems == SumLen(lists, DOMAIN lists)

----------------------------------------------------------------------------
\* screenItems: the rows of the screen, top to bottom

screenItem(kind, keyIdx, itemIdx) ==
    [kind |-> kind, keyIdx |-> keyIdx, itemIdx |-> itemIdx]

screenItems ==
    [i \in 1..Len(keys) |-> screenItem("kindKey", i - 1, 0)]
    \o [i \in 1..numItems |-> screenItem("kindItem", 0, i - 1)]
    \o (IF Len(keys) > 0 THEN <<screenItem("kindNewItem", 0, 0)>> ELSE <<>>)
    \o <<screenItem("kindNewList", 0, 0)>>

----------------------------------------------------------------------------
\* initialModel

\* a start cursor that forgets the items of the first list
initialCursorNoItems(ls, ks) == IF Len(ks) > 0 THEN Len(ks) ELSE 0

\* lines 167-172: the cursor starts on the add-item row of list 0
initialCursor(ls, ks) ==
    IF Len(ks) > 0 THEN Len(MapGet(ls, ks[1])) + Len(ks) ELSE 0

InitFrom(f) ==
    LET loaded == loadItems(f)
        ls == loaded[1]
        ks == loaded[2]
    IN  /\ saved = NoFile
        /\ lists = ls
        /\ nilLists = loadsNil(f)
        /\ keys = ks
        /\ selectedList = 0
        /\ listStartOffset = Len(ks)
        /\ cursor = initialCursor(ls, ks)
        /\ textInput = IF Len(ks) > 0
                       THEN focusTextInput(textinputNew)
                       ELSE blurTextInput(textinputNew)
        /\ newListTextInput = IF Len(ks) > 0
                              THEN blurListTextInput(textinputNew)
                              ELSE focusListTextInput(textinputNew)
        /\ status = "running"
        /\ msg = ""
        /\ pre = model

\* A program that is not started: it handles no event and keeps this value.
singleOff ==
    [items |-> <<>>, cursor |-> 0, textInput |-> textinputNew,
     status |-> "off", saved |-> NoFile, msg |-> "",
     pre |-> [items |-> <<>>, cursor |-> 0, textInput |-> textinputNew]]

tabbedOff ==
    [lists |-> EmptyMap, keys |-> <<>>, selectedList |-> 0, cursor |-> 0,
     textInput |-> textinputNew,
     status |-> "off", saved |-> NoFile, msg |-> "",
     pre |-> [lists |-> EmptyMap, keys |-> <<>>, selectedList |-> 0,
              cursor |-> 0, textInput |-> textinputNew]]

oneInputOff ==
    [lists |-> EmptyMap, keys |-> <<>>, selectedList |-> 0, cursor |-> 0,
     textInput |-> textinputNew, listStartOffset |-> 0,
     status |-> "off", saved |-> NoFile, msg |-> "",
     pre |-> [lists |-> EmptyMap, keys |-> <<>>, selectedList |-> 0,
              cursor |-> 0, textInput |-> textinputNew,
              listStartOffset |-> 0]]

earliestOff ==
    [items |-> <<>>, cursor |-> 0, selected |-> {},
     status |-> "off", saved |-> [kind |-> "absent", items |-> <<>>],
     file |-> [kind |-> "absent", items |-> <<>>], msg |-> "",
     pre |-> [items |-> <<>>, cursor |-> 0, selected |-> {}, msg |-> ""]]

twoInputOff ==
    /\ keys = <<>>
    /\ lists = EmptyMap
    /\ nilLists = FALSE
    /\ selectedList = 0
    /\ cursor = 0
    /\ listStartOffset = 0
    /\ textInput = textinputNew
    /\ newListTextInput = textinputNew
    /\ status = "off"
    /\ saved = NoFile
    /\ msg = ""
    /\ pre = model

Init ==
    /\ \E f \in InitialFiles : InitFrom(f)
    /\ single = singleOff
    /\ tabbed = tabbedOff
    /\ oneInput = oneInputOff
    /\ earliest = earliestOff

\* Every handler records the event and the model it found.
Handle(k) ==
    /\ status = "running"
    /\ msg' = k
    /\ pre' = model
    /\ nilLists' = nilLists
    /\ UNCHANGED <<single, tabbed, oneInput, earliest>>

\* An assignment to an entry of the nil map panics (lines 351 and 368): the
\* program dies inside the handler and nothing is saved.
Panics ==
    /\ status' = "panic"
    /\ UNCHANGED <<keys, lists, selectedList, cursor, listStartOffset,
                   textInput, newListTextInput, saved>>

\* lines 393-395: the event is passed on to both fields
PassOn(k) ==
    /\ textInput' = textinputUpdate(textInput, k)
    /\ newListTextInput' = textinputUpdate(newListTextInput, k)

----------------------------------------------------------------------------
\* case "ctrl+c", "q"

\* a quit key that always quits, also while an item is being typed
KeyQuitAlways(k) ==
    /\ Handle(k)
    /\ saved' = SaveItems
    /\ status' = "quit"
    /\ UNCHANGED <<keys, lists, selectedList, cursor, listStartOffset,
                   textInput, newListTextInput>>

KeyQuit(k) ==
    /\ Handle(k)
    /\ IF k = "q" /\ itemCursor = numItems /\ numKeys > 0
       THEN /\ PassOn(k)
            /\ UNCHANGED <<keys, lists, selectedList, cursor, listStartOffset,
                           status, saved>>
       ELSE /\ saved' = SaveItems
            /\ status' = "quit"
            /\ UNCHANGED <<keys, lists, selectedList, cursor, listStartOffset,
                           textInput, newListTextInput>>

----------------------------------------------------------------------------
\* case "d"

\* a selection that is not clamped when the first key goes
selectedAfterDeleteNoClamp(deleteKeyIdx, sel) ==
    IF deleteKeyIdx = sel THEN deleteKeyIdx - 1
    ELSE IF deleteKeyIdx < sel THEN sel - 1 ELSE sel

\* a selection that is not shifted when an earlier key goes
selectedAfterDeleteNoShift(deleteKeyIdx, sel) ==
    IF deleteKeyIdx = sel
    THEN (IF deleteKeyIdx - 1 < 0 THEN 0 ELSE deleteKeyIdx - 1)
    ELSE sel

\* lines 269-278: the selected index after the key at deleteKeyIdx is gone
selectedAfterDelete(deleteKeyIdx, sel) ==
    IF deleteKeyIdx = sel
    THEN (IF deleteKeyIdx - 1 < 0 THEN 0 ELSE deleteKeyIdx - 1)
    ELSE IF deleteKeyIdx < sel THEN sel - 1 ELSE sel

\* a delete of a list that leaves the stored offset as it was
DeleteListStaleOffset ==
    LET deleteKeyIdx == cursor
        deleteKey == keys[deleteKeyIdx + 1]
        newKeys == RemoveAt(keys, deleteKeyIdx)
    IN  /\ lists' = MapDelete(lists, deleteKey)
        /\ keys' = newKeys
        /\ IF Len(newKeys) = 0
           THEN /\ selectedList' = 0
                /\ listStartOffset' = listStartOffset
                /\ cursor' = 0
                /\ textInput' = blurTextInput(textInput)
                /\ newListTextInput' = focusListTextInput(newListTextInput)
           ELSE /\ selectedList' = selectedAfterDelete(deleteKeyIdx, selectedList)
                /\ listStartOffset' = listStartOffset
                /\ cursor' = selectedList'
                /\ textInput' = blurTextInput(textInput)
                /\ newListTextInput' = blurListTextInput(newListTextInput)

\* lines 240-289: the cursor is on a key row
DeleteList ==
    LET deleteKeyIdx == cursor
        deleteKey == keys[deleteKeyIdx + 1]
        newKeys == RemoveAt(keys, deleteKeyIdx)
    IN  /\ lists' = MapDelete(lists, deleteKey)
        /\ keys' = newKeys
        /\ IF Len(newKeys) = 0
           THEN /\ selectedList' = 0
                /\ listStartOffset' = 0
                /\ cursor' = 0
                /\ textInput' = blurTextInput(textInput)
                /\ newListTextInput' = focusListTextInput(newListTextInput)
           ELSE /\ selectedList' = selectedAfterDelete(deleteKeyIdx, selectedList)
                /\ listStartOffset' = Len(newKeys)
                /\ cursor' = selectedList'
                /\ textInput' = blurTextInput(textInput)
                /\ newListTextInput' = blurListTextInput(newListTextInput)

\* lines 291-303: the cursor is on an item row
DeleteItem ==
    LET newItems == RemoveAt(items, itemCursor)
    IN  /\ cursor' = setCursor(Len(newItems) - 1)
        /\ lists' = MapPut(lists, keys[selectedList + 1], newItems)
        /\ PassOn("d")
        /\ UNCHANGED <<keys, selectedList, listStartOffset>>

KeyD ==
    /\ Handle("d")
    /\ IF cursor < numKeys
       THEN DeleteList
       ELSE IF itemCursor < 0 \/ itemCursor >= numItems
       THEN /\ PassOn("d")
            /\ UNCHANGED <<keys, lists, selectedList, cursor, listStartOffset>>
       ELSE DeleteItem
    /\ UNCHANGED <<status, saved>>

----------------------------------------------------------------------------
\* case "tab", "shift+tab", "up", "down"

MoveKeys == {"tab", "shift+tab", "up", "down"}

\* a step that reads every move key as "next"
stepCursorAlwaysNext(s, c) == c + 1

\* lines 307-311
stepCursor(s, c) == IF s = "up" \/ s = "shift+tab" THEN c - 1 ELSE c + 1

\* lines 313-322: which field the stepped cursor c focuses,
\* "item", "list" or "none"
focusFor(c) ==
    IF newItemIdx >= 0 /\ c = newItemIdx THEN "item"
    ELSE IF c = newListIdx THEN "list"
    ELSE "none"

\* a wrap that lets the cursor reach total
wrapOffByOne(c) == IF c > total THEN 0 ELSE IF c < 0 THEN total - 1 ELSE c

\* lines 325-329
wrap(c) == IF c >= total THEN 0 ELSE IF c < 0 THEN total - 1 ELSE c

KeyMove(s) ==
    /\ Handle(s)
    /\ LET c == stepCursor(s, cursor)
           f == focusFor(c)
       IN  /\ textInput' = IF f = "item" THEN focusTextInput(textInput)
                           ELSE blurTextInput(textInput)
           /\ newListTextInput' = IF f = "list"
                                  THEN focusListTextInput(newListTextInput)
                                  ELSE blurListTextInput(newListTextInput)
           /\ cursor' = wrap(c)
    /\ UNCHANGED <<keys, lists, selectedList, listStartOffset, status, saved>>

----------------------------------------------------------------------------
\* case "enter" and case " "

\* a toggle that only ever sets the flag
toggledOn(its, i) == [its EXCEPT ![i + 1].Completed = TRUE]

\* lines 341-342 and 387-388: flip Completed of item i of the selected list
toggled(its, i) == [its EXCEPT ![i + 1].Completed = ~its[i + 1].Completed]

Toggle ==
    /\ lists' = MapPut(lists, keys[selectedList + 1], toggled(items, itemCursor))
    /\ UNCHANGED <<keys, selectedList, cursor, listStartOffset>>

\* an add-item that leaves the cursor where it was
AddItemCursorStays(text) ==
    /\ lists' = MapPut(lists, keys[selectedList + 1],
                       Append(items, listItem(text, FALSE)))
    /\ cursor' = cursor
    /\ textInput' = SetValue(textInput, <<>>)
    /\ UNCHANGED <<keys, selectedList, listStartOffset, newListTextInput>>

\* a confirm on a key row that selects nothing
SelectListKeepsSelection ==
    /\ selectedList' = selectedList
    /\ UNCHANGED <<keys, lists, cursor, listStartOffset>>

\* lines 336-337
SelectList ==
    /\ selectedList' = cursor
    /\ UNCHANGED <<keys, lists, cursor, listStartOffset>>

\* lines 351-358
AddItem(text) ==
    /\ lists' = MapPut(lists, keys[selectedList + 1],
                       Append(items, listItem(text, FALSE)))
    /\ cursor' = cursor + 1
    /\ textInput' = SetValue(textInput, <<>>)
    /\ UNCHANGED <<keys, selectedList, listStartOffset, newListTextInput>>

\* an add-list that places the cursor by the offset of the old key count
AddListStaleOffset(text) ==
    /\ keys' = Append(keys, text)
    /\ lists' = MapPut(lists, text, <<>>)
    /\ selectedList' = Len(keys') - 1
    /\ listStartOffset' = Len(keys')
    /\ cursor' = listStartOffset
    /\ newListTextInput' = Blur(SetValue(newListTextInput, <<>>))
    /\ textInput' = Focus(textInput)

\* lines 367-382
AddList(text) ==
    /\ keys' = Append(keys, text)
    /\ lists' = MapPut(lists, text, <<>>)
    /\ selectedList' = Len(keys') - 1
    /\ listStartOffset' = Len(keys')
    /\ cursor' = listStartOffset'
    /\ newListTextInput' = Blur(SetValue(newListTextInput, <<>>))
    /\ textInput' = Focus(textInput)

KeyEnter ==
    /\ Handle("enter")
    /\ IF cursor < numKeys
       THEN SelectList /\ PassOn("enter") /\ UNCHANGED <<status, saved>>
       ELSE IF itemCursor >= 0 /\ itemCursor < numItems
       THEN Toggle /\ PassOn("enter") /\ UNCHANGED <<status, saved>>
       ELSE IF newItemIdx >= 0 /\ cursor = newItemIdx
                /\ TrimSpace(textInput.value) # <<>>
       THEN /\ totalItems < MaxItems
            /\ IF nilLists THEN Panics
               ELSE /\ AddItem(TrimSpace(textInput.value))
                    /\ UNCHANGED <<status, saved>>
       ELSE IF ~(newItemIdx >= 0 /\ cursor = newItemIdx)
                /\ cursor = newListIdx
                /\ TrimSpace(newListTextInput.value) # <<>>
       THEN /\ numKeys < MaxKeys
            /\ IF nilLists THEN Panics
               ELSE /\ AddList(TrimSpace(newListTextInput.value))
                    /\ UNCHANGED <<status, saved>>
       ELSE /\ PassOn("enter")
            /\ UNCHANGED <<keys, lists, selectedList, cursor, listStartOffset,
                           status, saved>>

KeySpace ==
    /\ Handle(" ")
    /\ IF itemCursor >= 0 /\ itemCursor < numItems
       THEN Toggle
       ELSE UNCHANGED <<keys, lists, selectedList, cursor, listStartOffset>>
    /\ PassOn(" ")
    /\ UNCHANGED <<status, saved>>

----------------------------------------------------------------------------

Next ==
    \/ \E k \in {"ctrl+c", "q"} : KeyQuit(k)
    \/ KeyD
    \/ \E s \in MoveKeys : KeyMove(s)
    \/ KeyEnter
    \/ KeySpace

Spec == Init /\ [][Next]_vars

\* The files loadItems accepts: those above, a file of zero bytes, and
\* records in which the "lists" member or the "keys" member is missing.
LoadableFiles ==
    InitialFiles \cup
    {EmptyFile,
     [kind |-> "record", keys |-> <<>>, hasLists |-> FALSE, lists |-> {}],
     [kind |-> "record", keys |-> << <<"d">> >>, hasLists |-> FALSE,
      lists |-> {}],
     [kind |-> "record", keys |-> <<>>, hasLists |-> TRUE,
      lists |-> {<< <<"d">>, <<encodeItem(listItem(<<"d">>, FALSE))>> >>}]}

InitLoaded ==
    /\ \E f \in LoadableFiles : InitFrom(f)
    /\ single = singleOff
    /\ tabbed = tabbedOff
    /\ oneInput = oneInputOff
    /\ earliest = earliestOff

\* the program started on any file the loader accepts
SpecLoaded == InitLoaded /\ [][Next]_vars

----------------------------------------------------------------------------
\* The single-list program (src/main.go)
\*
\* Its file is absent, holds zero bytes, or holds one JSON array of items.
\* The variable single holds the model struct (items, cursor, textInput)
\* and, as for the two-input program, status, saved, msg and pre.

Single_model(p) ==
    [items |-> p.items, cursor |-> p.cursor, textInput |-> p.textInput]

Single_NoFile == [kind |-> "absent", items |-> <<>>]

\* SaveItems: json.Marshal(m.items)
Single_SaveItems(its) == [kind |-> "array", items |-> encodeItems(its)]

\* loadItems: an absent or empty file gives no items
Single_loadItems(f) ==
    IF f.kind = "array" THEN decodeItems(f.items) ELSE <<>>

\* The files a start can find: none, one of zero bytes, or an array this
\* program wrote.
Single_InitialFiles ==
    {Single_NoFile, [kind |-> "empty", items |-> <<>>]} \cup
    {Single_SaveItems(its) :
        its \in {<<>>,
                 <<listItem(<<"d">>, FALSE)>>,
                 <<listItem(<<"d">>, TRUE), listItem(<<"q">>, FALSE)>>}}

\* initialModel: the field is focused and the cursor is on the input row
Single_initialModel(f) ==
    LET its == Single_loadItems(f)
        m == [items |-> its, cursor |-> Len(its),
              textInput |-> Focus(textinputNew)]
    IN  [items |-> m.items, cursor |-> m.cursor, textInput |-> m.textInput,
         status |-> "running", saved |-> Single_NoFile, msg |-> "",
         pre |-> m]

InitSingle ==
    /\ \E f \in Single_InitialFiles : single = Single_initialModel(f)
    /\ tabbed = tabbedOff
    /\ oneInput = oneInputOff
    /\ earliest = earliestOff
    /\ twoInputOff

\* the program as it enters the handler of event k
Single_Handled(k) == [single EXCEPT !.msg = k, !.pre = Single_model(single)]

\* line 141: the event is passed on to the field
Single_PassOn(p, k) == [p EXCEPT !.textInput = textinputUpdate(@, k)]

\* an index out of range panics inside the handler
Single_Panics(k) == [Single_Handled(k) EXCEPT !.status = "panic"]

Single_Handle ==
    /\ single.status = "running"
    /\ UNCHANGED <<twoInputVars, tabbed, oneInput, earliest>>

\* lines 76-81
Single_KeyQuit(k) ==
    /\ Single_Handle
    /\ single' =
         IF k = "q" /\ single.cursor = Len(single.items)
         THEN Single_PassOn(Single_Handled(k), k)
         ELSE [Single_Handled(k) EXCEPT
                  !.saved = Single_SaveItems(single.items),
                  !.status = "quit"]

\* a wrap that keeps the stepped cursor
Single_wrapNever(c, n) == c

\* lines 90-94
Single_wrap(c, n) == IF c > n THEN 0 ELSE IF c < 0 THEN n ELSE c

\* lines 82-107
Single_KeyMove(s) ==
    /\ Single_Handle
    /\ LET c == Single_wrap(stepCursor(s, single.cursor), Len(single.items))
       IN  single' = [Single_Handled(s) EXCEPT
                         !.cursor = c,
                         !.textInput = IF Len(single.items) = c
                                       THEN Focus(@) ELSE Blur(@)]

\* lines 111-116 and 131-136: flip Completed of the item under the cursor
Single_Toggle(k) ==
    IF single.cursor >= 0 /\ single.cursor < Len(single.items)
    THEN Single_PassOn([Single_Handled(k) EXCEPT
                           !.items = toggled(@, single.cursor)], k)
    ELSE Single_Panics(k)

\* lines 118-127: the text of the field becomes a new item as it is
Single_AddItem ==
    [Single_Handled("enter") EXCEPT
        !.items = Append(@, listItem(single.textInput.value, FALSE)),
        !.cursor = @ + 1,
        !.textInput = SetValue(@, <<>>)]

\* lines 109-128
Single_KeyEnter ==
    /\ Single_Handle
    /\ single.cursor # Len(single.items) \/ Len(single.items) < MaxItems
    /\ single' = IF single.cursor # Len(single.items)
                 THEN Single_Toggle("enter")
                 ELSE Single_AddItem

\* lines 129-137
Single_KeySpace ==
    /\ Single_Handle
    /\ single' = IF single.cursor # Len(single.items)
                 THEN Single_Toggle(" ")
                 ELSE Single_PassOn(Single_Handled(" "), " ")

\* any other character: no case of the switch, the field takes it
Single_KeyRune(k) ==
    /\ Single_Handle
    /\ single' = Single_PassOn(Single_Handled(k), k)

NextSingle ==
    \/ \E k \in {"ctrl+c", "q"} : Single_KeyQuit(k)
    \/ \E s \in MoveKeys : Single_KeyMove(s)
    \/ Single_KeyEnter
    \/ Single_KeySpace
    \/ \E k \in Runes \ {" ", "q"} : Single_KeyRune(k)

SpecSingle == InitSingle /\ [][NextSingle]_vars

----------------------------------------------------------------------------
\* The multi-list program without key rows (src/unnamed/part_002, lines
\* 1-300): the rows are the items of the selected list and the input row.
\* Its loader and its file are those of the two-input program.

Tabbed_model(p) ==
    [lists |-> p.lists, keys |-> p.keys, selectedList |-> p.selectedList,
     cursor |-> p.cursor, textInput |-> p.textInput]

\* lines 85-91: the values Update computes on entry
Tabbed_numKeys(p) == Len(p.keys)
Tabbed_items(p) ==
    IF Len(p.keys) > 0 THEN MapGet(p.lists, p.keys[p.selectedList + 1])
    ELSE <<>>
Tabbed_numItems(p) == Len(Tabbed_items(p))

\* SaveItems, lines 228-255
Tabbed_SaveItems(p) == jsonMarshal(jsonData(p.keys, p.lists), FALSE)

\* initialModel, lines 51-76
Tabbed_initialModel(f) ==
    LET loaded == loadItems(f)
        ls == loaded[1]
        ks == loaded[2]
        m == [lists |-> ls, keys |-> ks, selectedList |-> 0,
              cursor |-> IF Len(ks) > 0 THEN Len(MapGet(ls, ks[1])) ELSE 0,
              textInput |-> Focus(textinputNew)]
    IN  [lists |-> m.lists, keys |-> m.keys, selectedList |-> m.selectedList,
         cursor |-> m.cursor, textInput |-> m.textInput,
         status |-> "running", saved |-> NoFile, msg |-> "", pre |-> m]

Tabbed_Handled(k) == [tabbed EXCEPT !.msg = k, !.pre = Tabbed_model(tabbed)]

\* line 174: the event is passed on to the field
Tabbed_PassOn(p, k) == [p EXCEPT !.textInput = textinputUpdate(@, k)]

\* an index out of range panics inside the handler
Tabbed_Panics(k) == [Tabbed_Handled(k) EXCEPT !.status = "panic"]

Tabbed_Handle ==
    /\ tabbed.status = "running"
    /\ UNCHANGED <<twoInputVars, single, oneInput, earliest>>

\* lines 97-102
Tabbed_KeyQuit(k) ==
    /\ Tabbed_Handle
    /\ tabbed' =
         IF k = "q" /\ tabbed.cursor = Tabbed_numItems(tabbed)
                    /\ Tabbed_numKeys(tabbed) > 0
         THEN Tabbed_PassOn(Tabbed_Handled(k), k)
         ELSE [Tabbed_Handled(k) EXCEPT
                  !.saved = Tabbed_SaveItems(tabbed),
                  !.status = "quit"]

\* lines 107-112: the items whose index is not c
Tabbed_newItems(its, c) ==
    IF c >= 0 /\ c < Len(its) THEN RemoveAt(its, c) ELSE its

\* lines 103-114: the new slice is assigned to the local items only; the
\* mapping keeps the item
Tabbed_KeyD ==
    /\ Tabbed_Handle
    /\ tabbed' =
         IF tabbed.cursor = Tabbed_numItems(tabbed)
         THEN Tabbed_PassOn(Tabbed_Handled("d"), "d")
         ELSE Tabbed_PassOn(
                  [Tabbed_Handled("d") EXCEPT
                      !.cursor = Len(Tabbed_newItems(Tabbed_items(tabbed),
                                                     tabbed.cursor)) - 1],
                  "d")

\* lines 124-128
Tabbed_wrap(c, n) == IF c > n THEN 0 ELSE IF c < 0 THEN n ELSE c

\* lines 116-140
Tabbed_KeyMove(s) ==
    /\ Tabbed_Handle
    /\ LET c == Tabbed_wrap(stepCursor(s, tabbed.cursor),
                            Tabbed_numItems(tabbed))
       IN  tabbed' = [Tabbed_Handled(s) EXCEPT
                         !.cursor = c,
                         !.textInput = IF Tabbed_numItems(tabbed) = c
                                       THEN Focus(@) ELSE Blur(@)]

\* lines 143-149 and 163-169: items[m.cursor] is read, then the flag of
\* that item of the selected list is flipped
Tabbed_Toggle(k) ==
    IF tabbed.cursor >= 0 /\ tabbed.cursor < Tabbed_numItems(tabbed)
    THEN Tabbed_PassOn(
             [Tabbed_Handled(k) EXCEPT
                 !.lists = MapPut(@, tabbed.keys[tabbed.selectedList + 1],
                                  toggled(Tabbed_items(tabbed), tabbed.cursor))],
             k)
    ELSE Tabbed_Panics(k)

\* lines 151-160: m.keys[m.selectedList] is read, which panics without keys
Tabbed_AddItem ==
    IF Tabbed_numKeys(tabbed) = 0
    THEN Tabbed_Panics("enter")
    ELSE [Tabbed_Handled("enter") EXCEPT
             !.lists = MapPut(@, tabbed.keys[tabbed.selectedList + 1],
                              Append(Tabbed_items(tabbed),
                                     listItem(tabbed.textInput.value, FALSE))),
             !.cursor = @ + 1,
             !.textInput = SetValue(@, <<>>)]

\* lines 142-161
Tabbed_KeyEnter ==
    /\ Tabbed_Handle
    /\ \/ tabbed.cursor # Tabbed_numItems(tabbed)
       \/ SumLen(tabbed.lists, DOMAIN tabbed.lists) < MaxItems
    /\ tabbed' = IF tabbed.cursor # Tabbed_numItems(tabbed)
                 THEN Tabbed_Toggle("enter")
                 ELSE Tabbed_AddItem

\* lines 162-170
Tabbed_KeySpace ==
    /\ Tabbed_Handle
    /\ tabbed' = IF tabbed.cursor # Tabbed_numItems(tabbed)
                 THEN Tabbed_Toggle(" ")
                 ELSE Tabbed_PassOn(Tabbed_Handled(" "), " ")

NextTabbed ==
    \/ \E k \in {"ctrl+c", "q"} : Tabbed_KeyQuit(k)
    \/ Tabbed_KeyD
    \/ \E s \in MoveKeys : Tabbed_KeyMove(s)
    \/ Tabbed_KeyEnter
    \/ Tabbed_KeySpace

----------------------------------------------------------------------------
\* The one-input multi-list program (src/unnamed/part_002, lines 302-648):
\* key rows, the item rows of the selected list and one input row.  Its
\* loader and its file are those of the two-input program.

OneInput_model(p) ==
    [lists |-> p.lists, keys |-> p.keys, selectedList |-> p.selectedList,
     cursor |-> p.cursor, textInput |-> p.textInput,
     listStartOffset |-> p.listStartOffset]

\* lines 422-431: the values Update computes on entry
OneInput_numKeys(p) == Len(p.keys)
OneInput_items(p) ==
    IF Len(p.keys) > 0 THEN MapGet(p.lists, p.keys[p.selectedList + 1])
    ELSE <<>>
OneInput_numItems(p) == Len(OneInput_items(p))
OneInput_total(p) == OneInput_numKeys(p) + OneInput_numItems(p) + 1

\* getItemCursor, lines 605-607
OneInput_getItemCursor(p) == p.cursor - p.listStartOffset

\* setCursor, lines 601-603: the method has a value receiver, it assigns to
\* its own copy of the model and the caller's model keeps its cursor
OneInput_setCursor(p, new) == p

\* SaveItems, lines 572-599
OneInput_SaveItems(p) == jsonMarshal(jsonData(p.keys, p.lists), FALSE)

\* initialModel, lines 385-413
OneInput_initialModel(f) ==
    LET loaded == loadItems(f)
        ls == loaded[1]
        ks == loaded[2]
        m == [lists |-> ls, keys |-> ks, selectedList |-> 0,
              cursor |-> IF Len(ks) > 0
                         THEN Len(MapGet(ls, ks[1])) + Len(ks) ELSE 0,
              textInput |-> Focus(textinputNew),
              listStartOffset |-> Len(ks)]
    IN  [lists |-> m.lists, keys |-> m.keys, selectedList |-> m.selectedList,
         cursor |-> m.cursor, textInput |-> m.textInput,
         listStartOffset |-> m.listStartOffset,
         status |-> "running", saved |-> NoFile, msg |-> "", pre |-> m]

OneInput_Handled(k) ==
    [oneInput EXCEPT !.msg = k, !.pre = OneInput_model(oneInput)]

\* line 521: the event is passed on to the field
OneInput_PassOn(p, k) == [p EXCEPT !.textInput = textinputUpdate(@, k)]

\* an index out of range panics inside the handler
OneInput_Panics(k) == [OneInput_Handled(k) EXCEPT !.status = "panic"]

OneInput_Handle ==
    /\ oneInput.status = "running"
    /\ UNCHANGED <<twoInputVars, single, tabbed, earliest>>

\* whether the cursor is on an item row
OneInput_onItem(p) ==
    /\ OneInput_getItemCursor(p) >= 0
    /\ OneInput_getItemCursor(p) < OneInput_numItems(p)

\* lines 437-442
OneInput_KeyQuit(k) ==
    /\ OneInput_Handle
    /\ oneInput' =
         IF k = "q" /\ OneInput_getItemCursor(oneInput)
                           = OneInput_numItems(oneInput)
                    /\ OneInput_numKeys(oneInput) > 0
         THEN OneInput_PassOn(OneInput_Handled(k), k)
         ELSE [OneInput_Handled(k) EXCEPT
                  !.saved = OneInput_SaveItems(oneInput),
                  !.status = "quit"]

\* lines 443-456
OneInput_KeyD ==
    /\ OneInput_Handle
    /\ oneInput' =
         IF ~OneInput_onItem(oneInput)
         THEN OneInput_PassOn(OneInput_Handled("d"), "d")
         ELSE LET newItems == RemoveAt(OneInput_items(oneInput),
                                       OneInput_getItemCursor(oneInput))
              IN  OneInput_PassOn(
                      [OneInput_setCursor(OneInput_Handled("d"),
                                          Len(newItems) - 1) EXCEPT
                          !.lists = MapPut(@,
                              oneInput.keys[oneInput.selectedList + 1],
                              newItems)],
                      "d")

\* lines 467-471
OneInput_wrap(c, t) == IF c >= t THEN 0 ELSE IF c < 0 THEN t - 1 ELSE c

\* lines 458-484
OneInput_KeyMove(s) ==
    /\ OneInput_Handle
    /\ LET c == OneInput_wrap(stepCursor(s, oneInput.cursor),
                              OneInput_total(oneInput))
       IN  oneInput' = [OneInput_Handled(s) EXCEPT
                           !.cursor = c,
                           !.textInput = IF c = OneInput_total(oneInput) - 1
                                         THEN Focus(@) ELSE Blur(@)]

\* lines 494-495 and 515-516
OneInput_Toggle(k) ==
    OneInput_PassOn(
        [OneInput_Handled(k) EXCEPT
            !.lists = MapPut(@, oneInput.keys[oneInput.selectedList + 1],
                             toggled(OneInput_items(oneInput),
                                     OneInput_getItemCursor(oneInput)))],
        k)

\* lines 500-510: blank text breaks; otherwise m.keys[m.selectedList] is
\* read, which panics without keys
OneInput_AddItem ==
    LET text == TrimSpace(oneInput.textInput.value)
    IN  IF text = <<>>
        THEN OneInput_PassOn(OneInput_Handled("enter"), "enter")
        ELSE IF OneInput_numKeys(oneInput) = 0
        THEN OneInput_Panics("enter")
        ELSE [OneInput_Handled("enter") EXCEPT
                 !.lists = MapPut(@, oneInput.keys[oneInput.selectedList + 1],
                                  Append(OneInput_items(oneInput),
                                         listItem(text, FALSE))),
                 !.cursor = @ + 1,
                 !.textInput = SetValue(@, <<>>)]

\* lines 486-511
OneInput_KeyEnter ==
    /\ OneInput_Handle
    /\ \/ OneInput_getItemCursor(oneInput) # OneInput_numItems(oneInput)
       \/ SumLen(oneInput.lists, DOMAIN oneInput.lists) < MaxItems
    /\ oneInput' =
         IF oneInput.cursor < OneInput_numKeys(oneInput)
         THEN OneInput_PassOn([OneInput_Handled("enter") EXCEPT
                                  !.selectedList = oneInput.cursor], "enter")
         ELSE IF OneInput_onItem(oneInput)
         THEN OneInput_Toggle("enter")
         ELSE IF OneInput_getItemCursor(oneInput) = OneInput_numItems(oneInput)
         THEN OneInput_AddItem
         ELSE OneInput_PassOn(OneInput_Handled("enter"), "enter")

\* lines 512-517
OneInput_KeySpace ==
    /\ OneInput_Handle
    /\ oneInput' = IF OneInput_onItem(oneInput)
                   THEN OneInput_Toggle(" ")
                   ELSE OneInput_PassOn(OneInput_Handled(" "), " ")

NextOneInput ==
    \/ \E k \in {"ctrl+c", "q"} : OneInput_KeyQuit(k)
    \/ OneInput_KeyD
    \/ \E s \in MoveKeys : OneInput_KeyMove(s)
    \/ OneInput_KeyEnter
    \/ OneInput_KeySpace

\* One of the two single-input multi-list programs is started.
InitSingleInput ==
    /\ \/ /\ \E f \in InitialFiles : tabbed = Tabbed_initialModel(f)
          /\ oneInput = oneInputOff
       \/ /\ \E f \in InitialFiles : oneInput = OneInput_initialModel(f)
          /\ tabbed = tabbedOff
    /\ single = singleOff
    /\ earliest = earliestOff
    /\ twoInputOff

NextSingleInput == NextTabbed \/ NextOneInput

SpecSingleInput == InitSingleInput /\ [][NextSingleInput]_vars

----------------------------------------------------------------------------
\* The earliest single-list program (src/unnamed/part_001, lines 545-732):
\* a list of items, a cursor and a set of selected rows; no input field.
\*
\* Its file is absent, holds zero bytes, or holds one JSON array of items.
\* The variable earliest holds the model struct (items, cursor, selected),
\* status, saved, msg and pre as for the other programs, and file, the file
\* the start found; pre also keeps the event before the last one.

Earliest_model(p) ==
    [items |-> p.items, cursor |-> p.cursor, selected |-> p.selected,
     msg |-> p.msg]

Earliest_NoFile == [kind |-> "absent", items |-> <<>>]

\* SaveItems: json.Marshal(m.items)
Earliest_SaveItems(its) == [kind |-> "array", items |-> encodeItems(its)]

\* LoadItems, inside the method: the receiver with the items of the file;
\* an absent or empty file gives no items
Earliest_LoadItemsReceiver(m, f) ==
    [m EXCEPT !.items = IF f.kind = "array" THEN decodeItems(f.items)
                        ELSE <<>>]

\* LoadItems, for its caller: the method has a value receiver (line 700),
\* so it assigns to a copy of the model and the caller's model is as before
Earliest_LoadItems(m, f) ==
    LET receiver == Earliest_LoadItemsReceiver(m, f) IN m

\* The files a start can find: none, one of zero bytes, or an array this
\* program's SaveItems writes.
Earliest_InitialFiles ==
    {Earliest_NoFile, [kind |-> "empty", items |-> <<>>]} \cup
    {Earliest_SaveItems(its) :
        its \in UNION {[1..n -> {listItem(<<"d">>, FALSE),
                                 listItem(<<"q">>, TRUE)}] :
                       n \in 0..MaxItems}}

\* initialModel: no items, cursor 0, nothing selected, then LoadItems
Earliest_initialModel(f) ==
    LET m == Earliest_LoadItems(
                 [items |-> <<>>, cursor |-> 0, selected |-> {}], f)
    IN  [items |-> m.items, cursor |-> m.cursor, selected |-> m.selected,
         status |-> "running", saved |-> f, file |-> f, msg |-> "",
         pre |-> [items |-> m.items, cursor |-> m.cursor,
                  selected |-> m.selected, msg |-> ""]]

InitEarliest ==
    /\ \E f \in Earliest_InitialFiles : earliest = Earliest_initialModel(f)
    /\ single = singleOff
    /\ tabbed = tabbedOff
    /\ oneInput = oneInputOff
    /\ twoInputOff

\* the program as it enters the handler of event k
Earliest_Handled(k) ==
    [earliest EXCEPT !.msg = k, !.pre = Earliest_model(earliest)]

Earliest_Handle ==
    /\ earliest.status = "running"
    /\ UNCHANGED <<twoInputVars, single, tabbed, oneInput>>

\* lines 603-605: the items are written and the program quits
Earliest_KeyQuit(k) ==
    /\ Earliest_Handle
    /\ earliest' = [Earliest_Handled(k) EXCEPT
                        !.saved = Earliest_SaveItems(earliest.items),
                        !.status = "quit"]

\* lines 608-611
Earliest_KeyUp(k) ==
    /\ Earliest_Handle
    /\ earliest' = [Earliest_Handled(k) EXCEPT
                        !.cursor = IF earliest.cursor > 0
                                   THEN earliest.cursor - 1
                                   ELSE earliest.cursor]

\* lines 614-617
Earliest_KeyDown(k) ==
    /\ Earliest_Handle
    /\ earliest' = [Earliest_Handled(k) EXCEPT
                        !.cursor =
                            IF earliest.cursor < Len(earliest.items) - 1
                            THEN earliest.cursor + 1
                            ELSE earliest.cursor]

\* lines 621-627: the row of the cursor is selected or unselected
Earliest_KeyToggle(k) ==
    /\ Earliest_Handle
    /\ earliest' = [Earliest_Handled(k) EXCEPT
                        !.selected =
                            IF earliest.cursor \in earliest.selected
                            THEN earliest.selected \ {earliest.cursor}
                            ELSE earliest.selected \cup {earliest.cursor}]

\* every other key falls through the switch
Earliest_KeyOther(k) ==
    /\ Earliest_Handle
    /\ earliest' = Earliest_Handled(k)

NextEarliest ==
    \/ \E k \in {"ctrl+c", "q"} : Earliest_KeyQuit(k)
    \/ \E k \in {"up", "k"} : Earliest_KeyUp(k)
    \/ \E k \in {"down", "j"} : Earliest_KeyDown(k)
    \/ \E k \in {"enter", " "} : Earliest_KeyToggle(k)
    \/ \E k \in {"d", "tab"} : Earliest_KeyOther(k)

SpecEarliest == InitEarliest /\ [][NextEarliest]_vars

----------------------------------------------------------------------------
\* The vocabulary of the properties, for a model value m

K(m) == Len(m.keys)

\* the name of the selected list
SelectedKey(m) == m.keys[m.selectedList + 1]

\* the items shown for the key at index i
ItemsAt(m, i) ==
    IF m.keys[i + 1] \in DOMAIN m.lists THEN m.lists[m.keys[i + 1]] ELSE <<>>

SelectedItems(m) == IF K(m) > 0 THEN ItemsAt(m, m.selectedList) ELSE <<>>

I(m) == Len(SelectedItems(m))

Total(m) == K(m) + I(m) + (IF K(m) > 0 THEN 2 ELSE 1)

OnKeyRow(m) == m.cursor >= 0 /\ m.cursor < K(m)
OnItemRow(m) == m.cursor >= K(m) /\ m.cursor < K(m) + I(m)
OnAddItemRow(m) == K(m) > 0 /\ m.cursor = K(m) + I(m)
OnAddListRow(m) == m.cursor = Total(m) - 1

\* s without its leading and trailing spaces
Trimmed(s) ==
    LET solid == {i \in DOMAIN s : s[i] # " "}
        first == CHOOSE i \in solid : \A j \in solid : i <= j
        last == CHOOSE i \in solid : \A j \in solid : i >= j
    IN  IF solid = {} THEN <<>> ELSE SubSeq(s, first, last)

\* s without the element at 0-based index i
Without(s, i) == SubSeq(s, 1, i) \o SubSeq(s, i + 2, Len(s))

Moved == msg \in MoveKeys
MovedNext == msg \in {"tab", "down"}

----------------------------------------------------------------------------
\* C1: in every reachable state the cursor addresses a row of the
\* projection: 0 <= cursor < total, total = K + I + (2 if K > 0 else 1).
C1_CursorInRange == 0 <= cursor /\ cursor < Total(model)

\* the only item of a list has just been deleted, or the only list
C1_Witness ==
    /\ msg = "d"
    /\ \/ OnItemRow(pre) /\ I(pre) = 1 /\ I(model) = 0
       \/ OnKeyRow(pre) /\ K(pre) = 1 /\ K(model) = 0

\* C2: every name of the key sequence has an entry in the list mapping and
\* every entry's name occurs in the key sequence.
C2_KeysMatchMapping == Range(keys) = DOMAIN lists

\* C3: after a move event the add-item field is focused iff the cursor is on
\* the add-item row, the add-list field is focused iff the cursor is on the
\* add-list row, and both are blurred otherwise.
C3_FocusFollowsCursor ==
    Moved =>
        /\ textInput.focus <=> OnAddItemRow(model)
        /\ newListTextInput.focus <=> OnAddListRow(model)

\* C4: at most one of the two input fields holds focus.
C4_AtMostOneFocus == ~(textInput.focus /\ newListTextInput.focus)

\* a list has just been added from the focused add-list field
C4_Witness ==
    /\ msg = "enter"
    /\ pre.newListTextInput.focus
    /\ K(model) = K(pre) + 1
    /\ textInput.focus

\* C5: a move event sets the cursor to (cursor + 1) mod total for tab and
\* down and to (cursor - 1) mod total for shift+tab and up, total taken
\* before the move, and leaves keys, mapping, selectedList and both fields'
\* text unchanged.
C5_MoveWraps ==
    Moved =>
        /\ cursor = (IF MovedNext THEN pre.cursor + 1 ELSE pre.cursor - 1)
                        % Total(pre)
        /\ keys = pre.keys
        /\ lists = pre.lists
        /\ selectedList = pre.selectedList
        /\ textInput.value = pre.textInput.value
        /\ newListTextInput.value = pre.newListTextInput.value

\* a move before row 0 with text in a field
C5_Witness ==
    /\ msg = "up"
    /\ pre.cursor = 0
    /\ cursor = Total(pre) - 1
    /\ K(pre) > 0
    /\ textInput.value # <<>>

\* C6: confirm on the add-list row with non-blank trimmed text appends the
\* trimmed name as the last key with an empty item list, selects it, puts
\* the cursor on its add-item row (the new key count), clears the add-list
\* field, focuses the add-item field and blurs the add-list field; from
\* zero lists it yields one key, selectedList = 0 and cursor = 1.
C6_AddList ==
    (msg = "enter" /\ OnAddListRow(pre)
        /\ Trimmed(pre.newListTextInput.value) # <<>>) =>
        /\ keys = Append(pre.keys, Trimmed(pre.newListTextInput.value))
        /\ SelectedItems(model) = <<>>
        /\ keys[Len(keys)] \in DOMAIN lists
        /\ selectedList = K(model) - 1
        /\ cursor = K(model)
        /\ OnAddItemRow(model)
        /\ newListTextInput.value = <<>>
        /\ textInput.focus
        /\ ~newListTextInput.focus
        /\ K(pre) = 0 => (K(model) = 1 /\ selectedList = 0 /\ cursor = 1)

\* the first list has just been added
C6_Witness ==
    /\ msg = "enter"
    /\ OnAddListRow(pre)
    /\ K(pre) = 0
    /\ keys = << <<"d">> >>

\* C7: confirm on the add-item row with non-blank trimmed text appends one
\* item (trimmed text, not completed) to the selected list, keeps the
\* items before it, moves the cursor one down onto the add-item row of the
\* new projection, clears the add-item field and leaves keys, selectedList
\* and focus unchanged.
C7_AddItem ==
    (msg = "enter" /\ OnAddItemRow(pre)
        /\ Trimmed(pre.textInput.value) # <<>>) =>
        /\ SelectedItems(model) =
               Append(SelectedItems(pre),
                      [Item |-> Trimmed(pre.textInput.value),
                       Completed |-> FALSE])
        /\ cursor = pre.cursor + 1
        /\ OnAddItemRow(model)
        /\ textInput.value = <<>>
        /\ keys = pre.keys
        /\ selectedList = pre.selectedList
        /\ textInput.focus = pre.textInput.focus
        /\ newListTextInput.focus = pre.newListTextInput.focus

\* a second item has just been added to a list
C7_Witness ==
    /\ msg = "enter"
    /\ OnAddItemRow(pre)
    /\ I(pre) = 1
    /\ I(model) = 2

\* C8: the delete key on item row K+j removes item j of the selected list,
\* keeps the others in order and sets cursor = K + (I-1) - 1; on the
\* add-item or add-list row it changes neither keys, mapping, selectedList
\* nor cursor.
C8_DeleteItem ==
    /\ (msg = "d" /\ OnItemRow(pre)) =>
        /\ SelectedItems(model) =
               Without(SelectedItems(pre), pre.cursor - K(pre))
        /\ cursor = K(pre) + (I(pre) - 1) - 1
        /\ keys = pre.keys
        /\ selectedList = pre.selectedList
    /\ (msg = "d" /\ (OnAddItemRow(pre) \/ OnAddListRow(pre))) =>
        /\ keys = pre.keys
        /\ lists = pre.lists
        /\ selectedList = pre.selectedList
        /\ cursor = pre.cursor

\* the first of two different items has just been deleted
C8_Witness ==
    /\ msg = "d"
    /\ OnItemRow(pre)
    /\ pre.cursor = K(pre)
    /\ I(pre) = 2
    /\ SelectedItems(pre)[1] # SelectedItems(pre)[2]
    /\ cursor = K(model)

\* C9: the delete key on key row d with K >= 2 removes the key at d, keeps
\* the other keys in order, sets selectedList to max(d-1, 0) if d was
\* selected, to selectedList-1 if d < selectedList and leaves it if
\* d > selectedList, then sets cursor = selectedList and blurs both fields.
C9_DeleteList ==
    (msg = "d" /\ OnKeyRow(pre) /\ K(pre) >= 2) =>
        LET d == pre.cursor
            sel == pre.selectedList
        IN  /\ keys = Without(pre.keys, d)
            /\ selectedList = IF d = sel THEN (IF d - 1 > 0 THEN d - 1 ELSE 0)
                              ELSE IF d < sel THEN sel - 1
                              ELSE sel
            /\ cursor = selectedList
            /\ ~textInput.focus
            /\ ~newListTextInput.focus

\* a key before the selected one has just been deleted
C9_Witness ==
    /\ msg = "d"
    /\ OnKeyRow(pre)
    /\ K(pre) >= 2
    /\ pre.cursor < pre.selectedList
    /\ pre.keys[1] # pre.keys[2]

\* C10: the delete key on the key row of the only list leaves no keys, an
\* empty mapping, selectedList = 0, cursor = 0, the add-list field focused,
\* the add-item field not focused, and a projection of the add-list row
\* alone.
C10_DeleteOnlyList ==
    (msg = "d" /\ OnKeyRow(pre) /\ K(pre) = 1) =>
        /\ keys = <<>>
        /\ DOMAIN lists = {}
        /\ selectedList = 0
        /\ cursor = 0
        /\ newListTextInput.focus
        /\ ~textInput.focus
        /\ Len(screenItems) = 1
        /\ screenItems[1].kind = "kindNewList"

\* the only list, holding an item, has just been deleted
C10_Witness ==
    /\ msg = "d"
    /\ OnKeyRow(pre)
    /\ K(pre) = 1
    /\ I(pre) > 0
    /\ K(model) = 0

\* C11: confirm on the add-item row or on the add-list row while that
\* field's text is empty or only spaces changes nothing: keys, every list's
\* items, selectedList, cursor and focus stay as they were.
C11_BlankIsNoOp ==
    (msg = "enter"
        /\ \/ OnAddItemRow(pre) /\ Trimmed(pre.textInput.value) = <<>>
           \/ OnAddListRow(pre) /\ Trimmed(pre.newListTextInput.value) = <<>>) =>
        /\ keys = pre.keys
        /\ lists = pre.lists
        /\ selectedList = pre.selectedList
        /\ cursor = pre.cursor
        /\ textInput.focus = pre.textInput.focus
        /\ newListTextInput.focus = pre.newListTextInput.focus

\* a single space has just been submitted as an item
C11_Witness ==
    /\ msg = "enter"
    /\ OnAddItemRow(pre)
    /\ pre.textInput.value = <<" ">>

\* C12: confirm or space on item row K+j flips the completed flag of item j
\* of the selected list and changes nothing else; toggling the same item
\* again gives back the mapping there was before.
C12_Toggle ==
    (msg \in {"enter", " "} /\ OnItemRow(pre)) =>
        LET j == pre.cursor - K(pre)
            old == SelectedItems(pre)
            new == SelectedItems(model)
        IN  /\ Len(new) = Len(old)
            /\ \A i \in 1..Len(old) :
                   /\ new[i].Item = old[i].Item
                   /\ new[i].Completed = IF i = j + 1 THEN ~old[i].Completed
                                         ELSE old[i].Completed
            /\ DOMAIN lists = DOMAIN pre.lists
            /\ \A n \in DOMAIN lists \ {SelectedKey(pre)} :
                   lists[n] = pre.lists[n]
            /\ keys = pre.keys
            /\ selectedList = pre.selectedList
            /\ cursor = pre.cursor
            /\ textInput = pre.textInput
            /\ newListTextInput = pre.newListTextInput
            /\ MapPut(lists, keys[selectedList + 1],
                      toggled(items, itemCursor)) = pre.lists

\* a completed item has just been toggled back with the space key
C12_Witness ==
    /\ msg = " "
    /\ OnItemRow(pre)
    /\ SelectedItems(pre)[pre.cursor - K(pre) + 1].Completed
    /\ I(pre) = 2

\* C13: confirm on key row k sets selectedList = k, leaves cursor, focus,
\* keys and every list's items unchanged, and the cursor is inside the
\* projection of the newly selected list.
C13_SelectList ==
    (msg = "enter" /\ OnKeyRow(pre)) =>
        /\ selectedList = pre.cursor
        /\ cursor = pre.cursor
        /\ textInput.focus = pre.textInput.focus
        /\ newListTextInput.focus = pre.newListTextInput.focus
        /\ keys = pre.keys
        /\ lists = pre.lists
        /\ 0 <= cursor /\ cursor < Total(model)

\* a list with another item count has just been selected
C13_Witness ==
    /\ msg = "enter"
    /\ OnKeyRow(pre)
    /\ selectedList # pre.selectedList
    /\ I(model) # I(pre)

\* the record f holds exactly the keys ks and the mapping ls
Holds(f, ks, ls) ==
    /\ f.kind = "record"
    /\ f.keys = ks
    /\ {mem[1] : mem \in f.lists} = DOMAIN ls
    /\ \A mem \in f.lists :
           /\ Len(mem[2]) = Len(ls[mem[1]])
           /\ \A i \in 1..Len(mem[2]) :
                  /\ mem[2][i].item = ls[mem[1]][i].Item
                  /\ mem[2][i].completed = ls[mem[1]][i].Completed

\* C14: 'q' on the add-item row with K > 0 neither saves nor terminates and
\* leaves keys, mapping, selectedList and cursor unchanged, the letter going
\* to the text field; 'q' in every other state and ctrl+c in every state
\* write a record equal to the current keys and mapping and terminate, and
\* no key event is handled after that.
C14_Quit ==
    /\ (msg = "q" /\ OnAddItemRow(pre)) =>
        /\ status = "running"
        /\ saved = NoFile
        /\ keys = pre.keys
        /\ lists = pre.lists
        /\ selectedList = pre.selectedList
        /\ cursor = pre.cursor
        /\ textInput.value = IF Len(pre.textInput.value) < MaxLen
                             THEN Append(pre.textInput.value, "q")
                             ELSE pre.textInput.value
    /\ (msg = "ctrl+c" \/ (msg = "q" /\ ~OnAddItemRow(pre))) =>
        /\ status = "quit"
        /\ Holds(saved, keys, lists)
        /\ model = pre
    /\ status = "quit" => ~ENABLED Next

\* 'q' has just been typed into the add-item field, and later the program
\* was quit with items in the record
C14_Witness ==
    /\ status = "quit"
    /\ msg = "q"
    /\ \E n \in DOMAIN lists :
           \E i \in 1..Len(lists[n]) : lists[n][i].Item = <<"q">>

\* C15: with K > 0 the selected index is a key index, 0 <= selectedList < K,
\* and with K = 0 it is 0.
C15_SelectedInRange ==
    IF K(model) > 0
    THEN 0 <= selectedList /\ selectedList < K(model)
    ELSE selectedList = 0

\* the selected first key, or the key before the selected last one, has
\* just been deleted
C15_Witness ==
    /\ msg = "d"
    /\ OnKeyRow(pre)
    /\ K(pre) = 2
    /\ pre.cursor = 0
    /\ K(model) = 1

\* C19: after load selectedList = 0; with a key the cursor is on the
\* add-item row of list 0 (K + I), the add-item field focused and the
\* add-list field blurred; without one cursor = 0 is the add-list row, the
\* add-list field focused and the add-item field blurred.
C19_InitialState ==
    msg = "" =>
        /\ selectedList = 0
        /\ K(model) > 0 =>
               /\ cursor = K(model) + I(model)
               /\ OnAddItemRow(model)
               /\ textInput.focus
               /\ ~newListTextInput.focus
        /\ K(model) = 0 =>
               /\ cursor = 0
               /\ OnAddListRow(model)
               /\ newListTextInput.focus
               /\ ~textInput.focus

\* the program has started on a file of two lists, the first with an item
C19_Witness ==
    /\ msg = ""
    /\ K(model) = 2
    /\ I(model) = 1

\* C16: whatever snapshot the loader accepted, a record without its lists
\* or keys member included, no add, delete, toggle, select or move step
\* fails: none writes into a mapping that does not exist.
C16_NoStepFails == status # "panic"

\* C17: two entries of the key sequence with the same name share no data:
\* adding, toggling or deleting an item while one is selected leaves the
\* items shown for the other unchanged.
C17_DuplicatesShareNoData ==
    (\/ msg \in {"enter", " ", "d"} /\ OnItemRow(pre)
     \/ msg = "enter" /\ OnAddItemRow(pre)) =>
        \A j \in 0..(K(pre) - 1) :
            (j # pre.selectedList /\ pre.keys[j + 1] = SelectedKey(pre)) =>
                ItemsAt(model, j) = ItemsAt(pre, j)

\* C18: the delete key on key row d removes that list's entry and items
\* from the mapping and leaves the items of every other entry of the key
\* sequence unchanged.
C18_DeleteListFrame ==
    (msg = "d" /\ OnKeyRow(pre)) =>
        LET d == pre.cursor
        IN  /\ pre.keys[d + 1] \notin DOMAIN lists
            /\ \A j \in 0..(K(pre) - 1) :
                   j # d => ItemsAt(model, IF j < d THEN j ELSE j - 1)
                                = ItemsAt(pre, j)

\* C20: saving the snapshot of a state and loading the saved record gives
\* the same key sequence and, for every key, the same items in the same
\* order with the same text and completed flag.
C20_RoundTrip ==
    LET loaded == loadItems(SaveItems)
        back == [keys |-> loaded[2], lists |-> loaded[1]]
    IN  /\ back.keys = keys
        /\ \A i \in 0..(K(model) - 1) :
               /\ Len(ItemsAt(back, i)) = Len(ItemsAt(model, i))
               /\ \A j \in 1..Len(ItemsAt(model, i)) :
                      /\ ItemsAt(back, i)[j].Item = ItemsAt(model, i)[j].Item
                      /\ ItemsAt(back, i)[j].Completed
                             = ItemsAt(model, i)[j].Completed
        /\ status = "quit" =>
               /\ saved = SaveItems
               /\ loadItems(saved)[2] = keys

\* a snapshot of two lists, one holding a completed item, has been saved
C20_Witness ==
    /\ status = "quit"
    /\ saved.kind = "record"
    /\ K(model) = 2
    /\ \E i \in 0..1 : \E j \in 1..Len(ItemsAt(model, i)) :
           ItemsAt(model, i)[j].Completed

\* C21: screenItems() has total = K + I + (2 if K > 0 else 1) rows: K key
\* rows, the I item rows of the selected list, the add-item row iff K > 0,
\* the add-list row; and the kind of the row at index cursor is the kind by
\* which Update classifies the cursor.
C21_ProjectionMatchesUpdate ==
    LET rowKind(r) ==
            IF r < K(model) THEN "kindKey"
            ELSE IF r < K(model) + I(model) THEN "kindItem"
            ELSE IF K(model) > 0 /\ r = K(model) + I(model) THEN "kindNewItem"
            ELSE "kindNewList"
        at == screenItems[cursor + 1].kind
    IN  /\ Len(screenItems) = Total(model)
        /\ \A r \in 0..(Total(model) - 1) :
               /\ screenItems[r + 1].kind = rowKind(r)
               /\ rowKind(r) = "kindKey" => screenItems[r + 1].keyIdx = r
               /\ rowKind(r) = "kindItem" =>
                      screenItems[r + 1].itemIdx = r - K(model)
        /\ (cursor < numKeys) <=> (at = "kindKey")
        /\ (itemCursor >= 0 /\ itemCursor < numItems) <=> (at = "kindItem")
        /\ (numKeys > 0 /\ cursor = total - 2) <=> (at = "kindNewItem")
        /\ (newItemIdx >= 0 /\ cursor = newItemIdx) <=> (at = "kindNewItem")
        /\ (cursor = newListIdx) <=> (at = "kindNewList")

\* the cursor has moved onto an item row below two key rows
C21_Witness ==
    /\ Moved
    /\ K(model) = 2
    /\ OnItemRow(model)
    /\ screenItems[cursor + 1].kind = "kindItem"

\* C24: a focused field implies that the cursor addresses its row: the
\* add-item field focused implies K > 0 and cursor = K + I, the add-list
\* field focused implies cursor = total - 1; so a typed character is never
\* inserted into a field whose row the cursor does not address.
C24_FocusImpliesCursor ==
    /\ textInput.focus => (K(model) > 0 /\ cursor = K(model) + I(model))
    /\ newListTextInput.focus => cursor = Total(model) - 1
    /\ textInput.value # pre.textInput.value /\ textInput.value # <<>> =>
           OnAddItemRow(pre)
    /\ newListTextInput.value # pre.newListTextInput.value
           /\ newListTextInput.value # <<>> =>
           OnAddListRow(pre)

\* a character has been typed into the add-list field below two lists
C24_Witness ==
    /\ msg = "d"
    /\ K(model) = 2
    /\ pre.newListTextInput.value = <<>>
    /\ newListTextInput.value = <<"d">>
    /\ newListTextInput.focus

\* the add-list field holds focus with the cursor on the add-list row
AddListFocused(m) == m.newListTextInput.focus /\ OnAddListRow(m)

\* C23: from every reachable state some finite sequence of key events gives
\* the add-list field the focus with the cursor on its row; in particular
\* from a state with zero lists.  With zero lists a key event leaves keys,
\* cursor, focus and text as they are unless it focuses the field or adds a
\* list, so there the claim says: the field is focused, or one key event
\* focuses it or adds a list.
C23_AddListReachable ==
    (status = "running" /\ K(model) = 0 /\ ~AddListFocused(model)) =>
        ENABLED (Next /\ (Len(keys') > 0
                          \/ (newListTextInput'.focus /\ cursor' = 0)))

\* C25: the add-list action leaves the items of every list that existed
\* before it unchanged, also when the new name equals an existing key.
C25_AddListFrame ==
    (msg = "enter" /\ OnAddListRow(pre)
        /\ Trimmed(pre.newListTextInput.value) # <<>>) =>
        \A j \in 0..(K(pre) - 1) : ItemsAt(model, j) = ItemsAt(pre, j)

\* C26: deleting a key other than the selected one leaves the name at
\* index selectedList and its items unchanged, for a deleted index below
\* and above the selected one.
C26_DeleteOtherKeepsSelected ==
    (msg = "d" /\ OnKeyRow(pre) /\ pre.cursor # pre.selectedList) =>
        /\ SelectedKey(model) = SelectedKey(pre)
        /\ SelectedItems(model) = SelectedItems(pre)

\* C22: in the single-list program confirm on the input row (cursor =
\* number of items) with empty or whitespace-only text is a no-op: items
\* and cursor are unchanged.
C22_SingleBlankIsNoOp ==
    (single.msg = "enter"
        /\ single.pre.cursor = Len(single.pre.items)
        /\ Trimmed(single.pre.textInput.value) = <<>>) =>
        /\ single.items = single.pre.items
        /\ single.cursor = single.pre.cursor

\* C30: in the single-list program 0 <= cursor <= number of items, the
\* field is focused iff the cursor is on the input row, and confirm on the
\* input row appends one item with completed = false and keeps the cursor
\* on the input row.
C30_SingleCursorAndFocus ==
    LET n == Len(single.items)
    IN  /\ 0 <= single.cursor
        /\ single.cursor <= n
        /\ single.textInput.focus <=> (single.cursor = n)
        /\ (single.msg = "enter"
                /\ single.pre.cursor = Len(single.pre.items)) =>
               /\ n = Len(single.pre.items) + 1
               /\ SubSeq(single.items, 1, n - 1) = single.pre.items
               /\ single.items[n].Completed = FALSE
               /\ single.cursor = n

\* a second item has been added on the input row
C30_Witness ==
    /\ single.msg = "enter"
    /\ single.pre.cursor = Len(single.pre.items)
    /\ Len(single.items) = 2
    /\ single.items[2].Item = <<"d">>

\* C27: in the program without key rows the delete key on item j of the
\* selected list removes item j from the stored items of that list, which
\* has one item fewer afterwards, and the snapshot saved at quit is that of
\* the stored lists.
C27_TabbedDeleteItem ==
    /\ (tabbed.msg = "d" /\ tabbed.pre.cursor >= 0
            /\ tabbed.pre.cursor < I(tabbed.pre)) =>
           /\ SelectedItems(tabbed)
                  = Without(SelectedItems(tabbed.pre), tabbed.pre.cursor)
           /\ I(tabbed) = I(tabbed.pre) - 1
    /\ tabbed.status = "quit" =>
           Holds(tabbed.saved, tabbed.keys, tabbed.lists)

\* C28: in the one-input program the delete key on item row K + j removes
\* item j and leaves the cursor at K + newItemCount - 1: on the new last
\* item, or on row K - 1 when the list becomes empty.
C28_OneInputDeleteItem ==
    (oneInput.msg = "d" /\ OnItemRow(oneInput.pre)) =>
        /\ SelectedItems(oneInput)
               = Without(SelectedItems(oneInput.pre),
                         oneInput.pre.cursor - K(oneInput.pre))
        /\ oneInput.cursor = K(oneInput) + I(oneInput) - 1

\* C29: in the two single-input multi-list programs no key event fails and
\* the cursor always addresses an existing item or the input row.
C29_SingleInputNoFailure ==
    /\ tabbed.status # "panic"
    /\ oneInput.status # "panic"
    /\ tabbed.status = "running" =>
           (0 <= tabbed.cursor /\ tabbed.cursor <= I(tabbed))
    /\ oneInput.status = "running" =>
           (0 <= oneInput.cursor
                /\ oneInput.cursor <= K(oneInput) + I(oneInput))

\* the items a file of the earliest program holds
FileItems(f) ==
    IF f.kind = "array"
    THEN [i \in 1..Len(f.items) |->
             [Item |-> f.items[i].item, Completed |-> f.items[i].completed]]
    ELSE <<>>

\* C31: in the earliest single-list program the items of the initial model
\* are the items of the file found at start, and a quit that is the first
\* key event writes an item sequence equal to the one of that file.
C31_EarliestLoadsItems ==
    /\ (earliest.status = "running" /\ earliest.msg = "") =>
           earliest.items = FileItems(earliest.file)
    /\ (earliest.status = "quit" /\ earliest.pre.msg = "") =>
           /\ earliest.saved.kind = "array"
           /\ FileItems(earliest.saved) = FileItems(earliest.file)

\* C32: in every reachable state of the two-input program the stored field
\* listStartOffset is the number of keys, so getItemCursor() is cursor - K
\* and setCursor(n), for an item index n of the selected list, gives the
\* index of the row of the projection that shows item n.
C32_OffsetIsKeyCount ==
    /\ listStartOffset = K(model)
    /\ getItemCursor = cursor - K(model)
    /\ \A n \in 0..(I(model) - 1) :
           /\ setCursor(n) = K(model) + n
           /\ screenItems[setCursor(n) + 1].kind = "kindItem"
           /\ screenItems[setCursor(n) + 1].itemIdx = n

\* one of two lists has just been deleted and the list left has an item
C32_Witness ==
    /\ msg = "d"
    /\ OnKeyRow(pre)
    /\ K(pre) = 2
    /\ K(model) = 1
    /\ listStartOffset = 1
    /\ I(model) > 0

====
